---- MODULE Spec2Model ----
(***************************************************************************)
(* A model of the fact-graph-clustering data layer:                        *)
(*   - graph/index_trie.rs : IndexTrie, a path-compressed trie that maps   *)
(*     strings to their rank in sorted order and back, and its iterator;   *)
(*   - graph/lower_triangular.rs, graph/adj_matrix.rs : the packed         *)
(*     symmetric matrix and the fixed-vertex-set graph built on it;        *)
(*   - clustering.rs : vectorize, the feature matrix of a batch of graphs; *)
(*   - construct.rs : the construction of a graph from a document;         *)
(*   - bin/generate.rs, bin/cluster.rs : graphs written to and read from   *)
(*     JSON files.                                                         *)
(* usize is scaled down to UsizeBits bits.  f32 weights are integers.      *)
(* Strings are sequences of bytes (naturals), as the trie stores them      *)
(* (Vec<u8>); str::as_bytes and String::from_utf8_unchecked reinterpret    *)
(* the same bytes.  Option<T> is a sequence of length 0 (None) or 1        *)
(* (Some).  Vec indices are 0-based in the code and 1-based here; ranks    *)
(* and iterator positions keep the code's 0-based values.                  *)
(***************************************************************************)
EXTENDS Integers, Sequences, FiniteSets, TLC

\* ------------------------------------------------------------------ bounds
\* Longest key inserted or queried.
MaxLen == 3
\* Most distinct strings a trie holds.
MaxStrings == 3
\* Most get_mut calls made on a graph.
MaxWrites == 2
\* The width of usize, scaled down.
UsizeBits == 4
\* The bytes keys are made of ('a', 'b').
Bytes == {97, 98}

\* The strings of exactly n bytes, and the keys: every string of at most
\* MaxLen bytes.
RECURSIVE StringsOfLen(_)
StringsOfLen(n) ==
    IF n = 0 THEN {<<>>}
    ELSE {Append(s, b) : s \in StringsOfLen(n - 1), b \in Bytes}

Keys == UNION {StringsOfLen(n) : n \in 0..MaxLen}

\* ------------------------------------------------------------------ Option
None == <<>>
Some(v) == <<v>>
IsSome(o) == Len(o) = 1
Unwrap(o) == o[1]

\* ------------------------------------------------------------------ slices
Min(a, b) == IF a < b THEN a ELSE b
Max(a, b) == IF a > b THEN a ELSE b

\* &s[..n]
Take(s, n) == SubSeq(s, 1, n)
\* &s[n..]
Drop(s, n) == SubSeq(s, n + 1, Len(s))

\* Vec::insert that puts x after the element at position i.
VecInsertAfter(vec, i, x) ==
    Take(vec, Min(i + 1, Len(vec))) \o <<x>> \o Drop(vec, Min(i + 1, Len(vec)))

\* Vec::insert(i, x), with i the code's 0-based position.
VecInsert(vec, i, x) == Take(vec, i) \o <<x>> \o Drop(vec, i)

\* Ord for byte slices: lexicographic, a proper prefix is Less.
RECURSIVE Cmp(_, _)
Cmp(a, b) ==
    IF a = <<>> /\ b = <<>> THEN "Equal"
    ELSE IF a = <<>> THEN "Less"
    ELSE IF b = <<>> THEN "Greater"
    ELSE IF a[1] < b[1] THEN "Less"
    ELSE IF a[1] > b[1] THEN "Greater"
    ELSE Cmp(Tail(a), Tail(b))

\* common_prefix that stops after the first byte.
CommonPrefixOneByte(v1, v2) ==
    IF v1 # <<>> /\ v2 # <<>> /\ v1[1] = v2[1] THEN 1 ELSE 0

\* common_prefix: the length of the longest common prefix.
CommonPrefix(v1, v2) ==
    LET m == Min(Len(v1), Len(v2))
        D == {i \in 1..m : v1[i] # v2[i]}
    IN  IF D = {} THEN m
        ELSE (CHOOSE i \in D : \A j \in D : i <= j) - 1

\* ------------------------------------------------------------------ nodes
Leaf(rest) == [kind |-> "Leaf", rest |-> rest]
NonLeaf(prefix, children, len) ==
    [kind |-> "NonLeaf", prefix |-> prefix, children |-> children, len |-> len]

\* IndexTrie::new
NewTrie == [roots |-> <<>>, len |-> 0]

\* Node::len with every node counted as one, a branch included.
NodeLenFlat(n) == 1

\* Node::len
NodeLen(n) == IF n.kind = "NonLeaf" THEN n.len ELSE 1

\* ------------------------------------------------------------------ insert
\* The empty-key case of insert_inner, with the leaf pushed at the end.
InsertEmptyAtEnd(vec) ==
    IF Len(vec) > 0 /\ vec[1].kind = "Leaf" /\ vec[1].rest = <<>>
    THEN [vec |-> vec, ret |-> FALSE]
    ELSE [vec |-> Append(vec, Leaf(<<>>)), ret |-> TRUE]

\* The empty-key case of insert_inner, without the test for an empty leaf
\* already there.
InsertEmptyNoCheck(vec) ==
    [vec |-> VecInsert(vec, 0, Leaf(<<>>)), ret |-> TRUE]

\* insert_inner, k empty: an empty leaf goes first, unless one is there.
InsertEmpty(vec) ==
    IF Len(vec) > 0 /\ vec[1].kind = "Leaf" /\ vec[1].rest = <<>>
    THEN [vec |-> vec, ret |-> FALSE]
    ELSE [vec |-> VecInsert(vec, 0, Leaf(<<>>)), ret |-> TRUE]

\* The order of the two leaves of a split leaf, with the (false, false) case
\* not comparing the first differing byte: the old remainder always first.
SplitOrderOldFirst(k, rest, c) ==
    IF Len(k) = c THEN << <<>>, Drop(rest, c) >>
    ELSE IF Len(rest) = c THEN << <<>>, Drop(k, c) >>
    ELSE << Drop(rest, c), Drop(k, c) >>

\* The order of the two leaves of a split leaf, with the (false, false) case
\* always putting the remainder of the new key first.
SplitOrderNewFirst(k, rest, c) ==
    IF Len(k) = c THEN << <<>>, Drop(rest, c) >>
    ELSE IF Len(rest) = c THEN << <<>>, Drop(k, c) >>
    ELSE << Drop(k, c), Drop(rest, c) >>

\* insert_inner, leaf with the same first byte and k # rest: (first, second).
SplitOrder(k, rest, c) ==
    IF Len(k) = c THEN << <<>>, Drop(rest, c) >>
    ELSE IF Len(rest) = c THEN << <<>>, Drop(k, c) >>
    ELSE IF k[c + 1] < rest[c + 1] THEN << Drop(k, c), Drop(rest, c) >>
    ELSE << Drop(rest, c), Drop(k, c) >>

\* The split of a branch with the new branch given the size of the old one.
SplitBranchSameLen(n, k, c) ==
    LET leaf == Leaf(Drop(k, c))
        nonleaf == NonLeaf(Drop(n.prefix, c), n.children, n.len)
        children == IF Len(k) = c \/ k[c + 1] < n.prefix[c + 1]
                    THEN <<leaf, nonleaf>>
                    ELSE <<nonleaf, leaf>>
    IN  NonLeaf(Take(n.prefix, c), children, n.len)

\* The split of a branch with the new leaf always pushed after the demoted
\* branch.
SplitBranchLeafLast(n, k, c) ==
    LET leaf == Leaf(Drop(k, c))
        nonleaf == NonLeaf(Drop(n.prefix, c), n.children, n.len)
    IN  NonLeaf(Take(n.prefix, c), <<nonleaf, leaf>>, n.len + 1)

\* insert_inner, branch whose prefix k leaves early: the split branch.
SplitBranch(n, k, c) ==
    LET leaf == Leaf(Drop(k, c))
        nonleaf == NonLeaf(Drop(n.prefix, c), n.children, n.len)
        children == IF Len(k) = c \/ k[c + 1] < n.prefix[c + 1]
                    THEN <<leaf, nonleaf>>
                    ELSE <<nonleaf, leaf>>
    IN  NonLeaf(Take(n.prefix, c), children, n.len + 1)

\* insert_inner: InsertScan is its for loop from position i on.
RECURSIVE InsertInner(_, _), InsertScan(_, _, _)
InsertInner(vec, k) ==
    IF k = <<>> THEN InsertEmpty(vec) ELSE InsertScan(vec, k, 1)

InsertScan(vec, k, i) ==
    IF i > Len(vec) THEN [vec |-> Append(vec, Leaf(k)), ret |-> TRUE]
    ELSE LET n == vec[i] IN
        IF n.kind = "Leaf" THEN
            IF n.rest = <<>> THEN InsertScan(vec, k, i + 1)
            ELSE IF k[1] > n.rest[1] THEN InsertScan(vec, k, i + 1)
            ELSE IF k[1] = n.rest[1] THEN
                LET c == CommonPrefix(k, n.rest) IN
                IF Len(k) = c /\ Len(n.rest) = c
                THEN [vec |-> vec, ret |-> FALSE]
                ELSE LET fs == SplitOrder(k, n.rest, c) IN
                     [vec |-> [vec EXCEPT ![i] =
                                  NonLeaf(Take(n.rest, c),
                                          <<Leaf(fs[1]), Leaf(fs[2])>>, 2)],
                      ret |-> TRUE]
            ELSE [vec |-> VecInsert(vec, i - 1, Leaf(k)), ret |-> TRUE]
        ELSE
            IF k[1] > n.prefix[1] THEN InsertScan(vec, k, i + 1)
            ELSE IF k[1] = n.prefix[1] THEN
                LET c == CommonPrefix(k, n.prefix) IN
                IF Len(n.prefix) = c THEN
                    LET r == InsertInner(n.children, Drop(k, c)) IN
                    [vec |-> [vec EXCEPT ![i] =
                                 NonLeaf(n.prefix, r.vec,
                                         IF r.ret THEN n.len + 1 ELSE n.len)],
                     ret |-> r.ret]
                ELSE [vec |-> [vec EXCEPT ![i] = SplitBranch(n, k, c)],
                      ret |-> TRUE]
            ELSE [vec |-> VecInsert(vec, i - 1, Leaf(k)), ret |-> TRUE]

\* IndexTrie::insert with the length bumped on every call.
TrieInsertAlwaysCounts(t, k) ==
    LET r == InsertInner(t.roots, k) IN
    [trie |-> [roots |-> r.vec, len |-> t.len + 1], ret |-> r.ret]

\* IndexTrie::insert: the new trie and the returned flag.
TrieInsert(t, k) ==
    LET r == InsertInner(t.roots, k) IN
    [trie |-> [roots |-> r.vec, len |-> IF r.ret THEN t.len + 1 ELSE t.len],
     ret |-> r.ret]

\* ------------------------------------------------------------------ lookup
\* get_inner of `impl Key for &str`; j is the position of its for loop.
RECURSIVE GetStrInner(_, _, _, _)
GetStrInner(nodes, k, i, j) ==
    IF j > Len(nodes) THEN None
    ELSE LET n == nodes[j] IN
        IF n.kind = "Leaf" THEN
            LET o == Cmp(k, n.rest) IN
            IF o = "Greater" THEN GetStrInner(nodes, k, i + 1, j + 1)
            ELSE IF o = "Equal" THEN Some(i)
            ELSE None
        ELSE
            LET o == Cmp(Take(k, Min(Len(k), Len(n.prefix))), n.prefix) IN
            IF o = "Greater" THEN GetStrInner(nodes, k, i + n.len, j + 1)
            ELSE IF o = "Equal"
                 THEN GetStrInner(n.children, Drop(k, Len(n.prefix)), i, 1)
            ELSE None

\* `impl Key for &str`, with the running offset started at one.
GetByStrFromOne(t, k) == GetStrInner(t.roots, k, 1, 1)

\* <&str as Key>::get: the rank of k.
GetByStr(t, k) == GetStrInner(t.roots, k, 0, 1)

\* get_inner of `impl Key for usize`; the code's (found, buf) is Some(buf)
\* or None.
RECURSIVE GetIdxInner(_, _, _, _)
GetIdxInner(nodes, i, buf, j) ==
    IF j > Len(nodes) THEN None
    ELSE LET n == nodes[j] IN
        IF n.kind = "Leaf" THEN
            IF i > 0 THEN GetIdxInner(nodes, i - 1, buf, j + 1)
            ELSE Some(buf \o n.rest)
        ELSE
            IF i >= n.len THEN GetIdxInner(nodes, i - n.len, buf, j + 1)
            ELSE GetIdxInner(n.children, i, buf \o n.prefix, 1)

\* `impl Key for usize`, with a leaf skipped before the rank is tested.
GetByIndexSkipsOne(t, r) == GetIdxInner(t.roots, r + 1, <<>>, 1)

\* <usize as Key>::get: the string at rank r.
GetByIndex(t, r) == GetIdxInner(t.roots, r, <<>>, 1)

\* ------------------------------------------------------------------ iterator
\* IterItem::Root(trie, i) and IterItem::Prefix(node, i)
RootItem(t, i) == [kind |-> "Root", node |-> t, i |-> i]
PrefixItem(n, i) == [kind |-> "Prefix", node |-> n, i |-> i]

\* The node list an IterItem walks (the match at the head of next).
ItemNodes(x) == IF x.kind = "Root" THEN x.node.roots ELSE x.node.children

\* into_iter, with the root position started past the first node.
IntoIterFromOne(t) == <<RootItem(t, 1)>>

\* <&IndexTrie as IntoIterator>::into_iter: the iterator's state.
IntoIter(t) == <<RootItem(t, 0)>>

\* The prefixes of the items of a state after the first, joined.
RECURSIVE JoinPrefixes(_, _)
JoinPrefixes(state, j) ==
    IF j > Len(state) THEN <<>>
    ELSE state[j].node.prefix \o JoinPrefixes(state, j + 1)

\* IndexTrieIterator::next: the state left and the item returned.
RECURSIVE IterNext(_)
IterNext(state) ==
    IF state = <<>> THEN [state |-> state, item |-> None]
    ELSE LET top == Len(state)
             cur == ItemNodes(state[top])
             i == state[top].i
         IN  IF i >= Len(cur) THEN IterNext(Take(state, top - 1))
             ELSE LET n == cur[i + 1]
                      st == [state EXCEPT ![top].i = i + 1]
                  IN  IF n.kind = "NonLeaf"
                      THEN IterNext(Append(st, PrefixItem(n, 0)))
                      ELSE [state |-> st,
                            item |-> Some(JoinPrefixes(st, 2) \o n.rest)]

\* The sum of Node::len over the nodes of a list from position j on.
RECURSIVE SumLen(_, _)
SumLen(nodes, j) ==
    IF j > Len(nodes) THEN 0 ELSE NodeLen(nodes[j]) + SumLen(nodes, j + 1)

\* IndexTrieIterator::size_hint: rem, the lower and the upper bound.
RECURSIVE SizeHint(_)
SizeHint(state) ==
    IF state = <<>> THEN 0
    ELSE LET top == Len(state) IN
         SumLen(ItemNodes(state[top]), state[top].i + 1)
             + SizeHint(Take(state, top - 1))

\* ------------------------------------------------------------------ matrix
\* The outcome of a call: a value, the Err of a Result, or a panic.
Ok(v) == [tag |-> "Ok", val |-> v]
Err == [tag |-> "Err"]
Panic == [tag |-> "Panic"]

\* The slot of a pair with the pair taken as (row, col) as given.
SlotAsGiven(i, j) == (i * (i + 1)) \div 2 + j

\* usize arithmetic on a word of UsizeBits bits: the largest value, and a
\* result reduced as wrapping arithmetic reduces it.
UsizeMax == 2 ^ UsizeBits - 1
Usize(x) == x % (UsizeMax + 1)

\* LowerTriangular::index / index_mut: whether (row * (row + 1)) / 2 + col
\* overflows usize at one of its three operations.
SlotOverflows(i, j) ==
    LET row == Max(i, j)
        col == Min(i, j)
    IN  \/ row + 1 > UsizeMax
        \/ row * (row + 1) > UsizeMax
        \/ (row * (row + 1)) \div 2 + col > UsizeMax

\* The slot computed with rows one slot short: row * (row - 1) / 2 + col.
SlotShortRows(i, j) ==
    LET row == Max(i, j)
        col == Min(i, j)
    IN  Usize(Usize(row * Usize(row + UsizeMax)) \div 2 + col)

\* LowerTriangular::index / index_mut: the 0-based slot of the pair (i, j),
\* as wrapping arithmetic computes it.
Slot(i, j) ==
    LET row == Max(i, j)
        col == Min(i, j)
    IN  Usize(Usize(row * Usize(row + 1)) \div 2 + col)

\* <LowerTriangular as Index>::index: the slot read, or the Vec's bounds
\* check failing.
LTIndex(m, i, j) ==
    IF Slot(i, j) < Len(m) THEN Ok(m[Slot(i, j) + 1]) ELSE Panic

\* <LowerTriangular as IndexMut>::index_mut followed by a write of v through
\* the reference: the matrix left, or the bounds check failing.
LTIndexMut(m, i, j, v) ==
    IF Slot(i, j) < Len(m) THEN Ok([m EXCEPT ![Slot(i, j) + 1] = v]) ELSE Panic

\* index in a build with overflow checks (checks) or without: the integer
\* overflow panics in the first, and wraps in the second.
LTIndexIn(checks, m, i, j) ==
    IF checks /\ SlotOverflows(i, j) THEN Panic ELSE LTIndex(m, i, j)

\* index_mut and the write of v in a build with overflow checks or without.
LTIndexMutIn(checks, m, i, j, v) ==
    IF checks /\ SlotOverflows(i, j) THEN Panic ELSE LTIndexMut(m, i, j, v)

\* ------------------------------------------------------------------ graph
\* AMGraph::new with a slot for every pair of distinct vertices only.
AMGraphNewNoSelfPairs(map) ==
    LET vert_len == map.len
        edge_len == (vert_len * (vert_len - 1)) \div 2
    IN  [map |-> map, edges |-> [x \in 1..edge_len |-> None]]

\* AMGraph::new
AMGraphNew(map) ==
    LET vert_len == map.len
        edge_len == (vert_len * (vert_len + 1)) \div 2
    IN  [map |-> map, edges |-> [x \in 1..edge_len |-> None]]

\* AMGraph::len
AMGraphLen(g) == g.map.len

\* AMGraph::contains_vertex
AMGraphContainsVertex(g, v) == IsSome(GetByStr(g.map, v))

\* AMGraph::get with a second label that is not a vertex read as rank 0.
AMGraphGetDefaultsV2(g, v1, v2) ==
    LET r1 == GetByStr(g.map, v1)
        r2 == GetByStr(g.map, v2)
    IN  IF ~IsSome(r1) THEN Err
        ELSE LTIndex(g.edges, Unwrap(r1), IF IsSome(r2) THEN Unwrap(r2) ELSE 0)

\* AMGraph::get
AMGraphGet(g, v1, v2) ==
    LET r1 == GetByStr(g.map, v1)
        r2 == GetByStr(g.map, v2)
    IN  IF ~IsSome(r1) THEN Err
        ELSE IF ~IsSome(r2) THEN Err
        ELSE LTIndex(g.edges, Unwrap(r1), Unwrap(r2))

\* AMGraph::get_mut that first makes vertices of the labels it is given.
AMGraphSetCreating(g, v1, v2, e) ==
    LET map == TrieInsert(TrieInsert(g.map, v1).trie, v2).trie
        r1 == GetByStr(map, v1)
        r2 == GetByStr(map, v2)
        w == LTIndexMut(g.edges, Unwrap(r1), Unwrap(r2), e)
    IN  IF w.tag = "Ok" THEN Ok([map |-> map, edges |-> w.val]) ELSE Panic

\* AMGraph::get_mut and the caller's write of e through the reference it
\* returns: Ok of the graph left, Err, or a panic.
AMGraphSet(g, v1, v2, e) ==
    LET r1 == GetByStr(g.map, v1)
        r2 == GetByStr(g.map, v2)
    IN  IF ~IsSome(r1) THEN Err
        ELSE IF ~IsSome(r2) THEN Err
        ELSE LET w == LTIndexMut(g.edges, Unwrap(r1), Unwrap(r2), e) IN
             IF w.tag = "Ok" THEN Ok([g EXCEPT !.edges = w.val]) ELSE Panic

\* AMGraph::edges: the iterator's state when created.
AMGraphEdges(g) == [row |-> 0, col |-> 0]

\* The position after (row, col) in Edges::next.
EdgesAdvance(it) ==
    IF it.col + 1 > it.row THEN [row |-> it.row + 1, col |-> 0]
    ELSE [row |-> it.row, col |-> it.col + 1]

\* Edges::next with the first slot of every row passed over.
RECURSIVE EdgesNextFromOne(_, _)
EdgesNextFromOne(g, it) ==
    IF ~(it.row < AMGraphLen(g))
    THEN [tag |-> "Ok", state |-> it, item |-> None]
    ELSE LET res == LTIndex(g.edges, it.row, it.col)
             l1 == GetByIndex(g.map, it.row)
             l2 == GetByIndex(g.map, it.col)
         IN  IF res.tag = "Panic" THEN [tag |-> "Panic"]
             ELSE IF it.col > 0 /\ IsSome(res.val)
             THEN IF IsSome(l1) /\ IsSome(l2)
                  THEN [tag |-> "Ok", state |-> EdgesAdvance(it),
                        item |-> Some(<<Unwrap(l1), Unwrap(l2),
                                        Unwrap(res.val)>>)]
                  ELSE [tag |-> "Panic"]
             ELSE EdgesNextFromOne(g, EdgesAdvance(it))

\* <Edges as Iterator>::next: the state left and the item returned, or a
\* panic (a slot out of the matrix, or a rank without a label).
RECURSIVE EdgesNext(_, _)
EdgesNext(g, it) ==
    IF ~(it.row < AMGraphLen(g))
    THEN [tag |-> "Ok", state |-> it, item |-> None]
    ELSE LET res == LTIndex(g.edges, it.row, it.col)
             l1 == GetByIndex(g.map, it.row)
             l2 == GetByIndex(g.map, it.col)
         IN  IF res.tag = "Panic" THEN [tag |-> "Panic"]
             ELSE IF IsSome(res.val)
             THEN IF IsSome(l1) /\ IsSome(l2)
                  THEN [tag |-> "Ok", state |-> EdgesAdvance(it),
                        item |-> Some(<<Unwrap(l1), Unwrap(l2),
                                        Unwrap(res.val)>>)]
                  ELSE [tag |-> "Panic"]
             ELSE EdgesNext(g, EdgesAdvance(it))

\* ------------------------------------------------------------------ vectorize
\* The count a label must exceed to enter the shared vocabulary.
FreqThreshold == 3

\* <f32 as Value>::value: the weight itself.
Value(e) == e

\* <IndexTrie as FromIterator<String>>::from_iter
RECURSIVE FromIter(_)
FromIter(strs) ==
    IF strs = <<>> THEN NewTrie
    ELSE TrieInsert(FromIter(Take(strs, Len(strs) - 1)), strs[Len(strs)]).trie

\* An iterator run to its end: the strings it returns.
RECURSIVE Drain(_)
Drain(state) ==
    LET r == IterNext(state) IN
    IF IsSome(r.item) THEN <<Unwrap(r.item)>> \o Drain(r.state) ELSE <<>>

\* graphs.iter().map(|g| g.vertices()).flatten(): the vertices of every
\* graph, one graph after the other.
RECURSIVE AllVertices(_)
AllVertices(gs) ==
    IF gs = <<>> THEN <<>>
    ELSE Drain(IntoIter(gs[1].map)) \o AllVertices(Drop(gs, 1))

\* The fold into a HashMap: for each string of words its number of
\* occurrences.
Counts(words) ==
    [w \in {words[i] : i \in DOMAIN words} |->
        Cardinality({i \in DOMAIN words : words[i] = w})]

\* The filter with a label kept from the threshold itself on.
RetainedFromThreshold(gs) ==
    LET counts == Counts(AllVertices(gs)) IN
    {w \in DOMAIN counts : counts[w] >= FreqThreshold}

\* .filter(|&(_, v)| v > 3).map(|(k, _)| k): the labels that enter the
\* shared vocabulary.
Retained(gs) ==
    LET counts == Counts(AllVertices(gs)) IN
    {w \in DOMAIN counts : counts[w] > FreqThreshold}

\* The orders a HashMap may yield the strings of S in.
Orders(S) ==
    {o \in [1..Cardinality(S) -> S] :
        \A i, j \in DOMAIN o : i # j => o[i] # o[j]}

\* Array2::zeros((n, len))
Zeros(n, len) == [k \in 1..n |-> [c \in 1..len |-> 0]]

\* term_indices_to_edge_index
TermIndicesToEdgeIndex(i1, i2) ==
    LET row == Max(i1, i2)
        col == Min(i1, i2)
    IN  Usize(Usize(row * Usize(row + 1)) \div 2 + col)

\* The visit of an edge with a label outside the vocabulary read as rank 0.
VisitEdgeDefaultRank(row, lang, t) ==
    LET v1 == GetByStr(lang, t[1])
        v2 == GetByStr(lang, t[2])
        idx == TermIndicesToEdgeIndex(IF IsSome(v1) THEN Unwrap(v1) ELSE 0,
                                      IF IsSome(v2) THEN Unwrap(v2) ELSE 0)
    IN  IF idx < Len(row)
        THEN [tag |-> "Ok", row |-> [row EXCEPT ![idx + 1] = Value(t[3])],
              cells |-> {idx}]
        ELSE [tag |-> "Ok", row |-> row, cells |-> {}]

\* The closure given to g.edges().for_each on the edge t = (v1, v2, e): the
\* row left and the cells written, or the panic of an index out of the row.
VisitEdge(row, lang, t) ==
    LET v1 == GetByStr(lang, t[1])
        v2 == GetByStr(lang, t[2])
    IN  IF IsSome(v1) /\ IsSome(v2)
        THEN LET idx == TermIndicesToEdgeIndex(Unwrap(v1), Unwrap(v2)) IN
             IF idx < Len(row)
             THEN [tag |-> "Ok", row |-> [row EXCEPT ![idx + 1] = Value(t[3])],
                   cells |-> {idx}]
             ELSE [tag |-> "Panic"]
        ELSE [tag |-> "Ok", row |-> row, cells |-> {}]

\* Every task given the first row.
TaskRowFirst(k) == 1

\* .zip(graphs): the row the task of the k-th graph is given (both counted
\* from 1).
TaskRow(k) == k

\* g.edges().for_each(..) run from the iterator state it on: the row left.
RECURSIVE FillRow(_, _, _, _)
FillRow(row, g, it, lang) ==
    LET r == EdgesNext(g, it) IN
    IF r.tag = "Ok" /\ IsSome(r.item)
    THEN LET w == VisitEdge(row, lang, Unwrap(r.item)) IN
         IF w.tag = "Ok" THEN FillRow(w.row, g, r.state, lang) ELSE row
    ELSE row

\* ------------------------------------------------------------------ persistence
\* #[derive(Serialize)] on Node: a node as the JSON object of its variant.
RECURSIVE NodesToJson(_)
NodesToJson(nodes) ==
    [j \in DOMAIN nodes |->
        IF nodes[j].kind = "Leaf"
        THEN [variant |-> "Leaf", rest |-> nodes[j].rest]
        ELSE [variant |-> "NonLeaf", prefix |-> nodes[j].prefix,
              children |-> NodesToJson(nodes[j].children),
              len |-> nodes[j].len]]

\* #[derive(Serialize)] on AMGraph, IndexTrie and LowerTriangular: the graph
\* as a JSON document.
Serialize(g) ==
    [map |-> [roots |-> NodesToJson(g.map.roots), len |-> g.map.len],
     edges |-> g.edges]

\* #[derive(Deserialize)] on Node: whether every object names a variant of
\* Node.
RECURSIVE VariantsKnown(_)
VariantsKnown(nodes) ==
    \A j \in DOMAIN nodes :
        \/ nodes[j].variant = "Leaf"
        \/ nodes[j].variant = "NonLeaf" /\ VariantsKnown(nodes[j].children)

\* #[derive(Deserialize)] on Node: the nodes a JSON array of them gives.
RECURSIVE NodesFromJson(_)
NodesFromJson(nodes) ==
    [j \in DOMAIN nodes |->
        IF nodes[j].variant = "Leaf" THEN Leaf(nodes[j].rest)
        ELSE NonLeaf(nodes[j].prefix, NodesFromJson(nodes[j].children),
                     nodes[j].len)]

\* serde_json::from_reader into Graph through #[derive(Deserialize)]: the
\* graph with the fields of the document, or an error when the document has
\* not the shape of the types.
Deserialize(doc) ==
    IF VariantsKnown(doc.map.roots)
    THEN Ok([map |-> [roots |-> NodesFromJson(doc.map.roots),
                      len |-> doc.map.len],
             edges |-> doc.edges])
    ELSE Err

\* ------------------------------------------------------------------ construct
\* The sequences of a sequence, one after the other (Iterator::flatten).
RECURSIVE Concat(_)
Concat(ss) == IF ss = <<>> THEN <<>> ELSE ss[1] \o Concat(Drop(ss, 1))

\* The terms of a list of sentences, and of a list of paragraphs.
SentencesTerms(sents) == Concat(sents)
ParagraphsTerms(pars) == Concat([p \in DOMAIN pars |-> Concat(pars[p])])

\* build_language over the first paragraph only.
BuildLanguageOfFirstParagraph(doc) ==
    FromIter(ParagraphsTerms(Take(doc, Min(1, Len(doc)))))

\* build_language
BuildLanguageOf(doc) == FromIter(ParagraphsTerms(doc))

\* add_weight that leaves the edge alone when the weight is zero.
AddWeightSkipZero(g, t1, t2, weight) ==
    LET edge == AMGraphGet(g, t1, t2) IN
    IF edge.tag # "Ok" THEN Panic
    ELSE IF weight = 0 THEN Ok(g)
    ELSE AMGraphSet(g, t1, t2,
                    IF IsSome(edge.val) THEN Some(Unwrap(edge.val) + weight)
                    ELSE Some(weight))

\* Graph::add_weight: the graph left, or the panic of unwrap on Err.
AddWeight(g, t1, t2, weight) ==
    LET edge == AMGraphGet(g, t1, t2) IN
    IF edge.tag # "Ok" THEN Panic
    ELSE AMGraphSet(g, t1, t2,
                    IF IsSome(edge.val) THEN Some(Unwrap(edge.val) + weight)
                    ELSE Some(weight))

\* The add_weight calls of one pass of the innermost while loop that give
\* the terms of later paragraphs the paragraph weight.
TermCallsParagraphForDocument(term, restSent, laterSents, laterPars, w) ==
    LET para == SentencesTerms(laterSents)
        docu == ParagraphsTerms(laterPars)
    IN  <<<<term, term, w[1]>>>>
        \o [k \in DOMAIN restSent |-> <<term, restSent[k], w[2]>>]
        \o [k \in DOMAIN para |-> <<term, para[k], w[3]>>]
        \o [k \in DOMAIN docu |-> <<term, docu[k], w[3]>>]

\* The add_weight calls of one pass of the innermost while loop of
\* construct_hierarchial_weighed, for term with the rest of its sentence,
\* the later sentences of its paragraph and the later paragraphs: each
\* <<t1, t2, weight>>, in the order made.
TermCalls(term, restSent, laterSents, laterPars, w) ==
    LET para == SentencesTerms(laterSents)
        docu == ParagraphsTerms(laterPars)
    IN  <<<<term, term, w[1]>>>>
        \o [k \in DOMAIN restSent |-> <<term, restSent[k], w[2]>>]
        \o [k \in DOMAIN para |-> <<term, para[k], w[3]>>]
        \o [k \in DOMAIN docu |-> <<term, docu[k], w[4]>>]

\* The calls of the three nested while loops.
HierarchialCalls(doc, w) ==
    Concat([p \in DOMAIN doc |->
        Concat([s \in DOMAIN doc[p] |->
            Concat([i \in DOMAIN doc[p][s] |->
                TermCalls(doc[p][s][i], Drop(doc[p][s], i),
                          Drop(doc[p], s), Drop(doc, p), w)])])])

\* A list of add_weight calls made on g: Ok of the graph left, or a panic.
RECURSIVE AddWeights(_, _)
AddWeights(g, calls) ==
    IF calls = <<>> THEN Ok(g)
    ELSE LET r == AddWeight(g, calls[1][1], calls[1][2], calls[1][3]) IN
         IF r.tag = "Ok" THEN AddWeights(r.val, Drop(calls, 1)) ELSE Panic

\* construct_hierarchial_weighed
ConstructHierarchialWeighed(doc, w) ==
    AddWeights(AMGraphNew(BuildLanguageOf(doc)), HierarchialCalls(doc, w))

\* The add_weight calls of one pass of the while loop of
\* construct_sentence_count that counts each later term of the sentence
\* once, however often it occurs.
CountTermCallsOnce(term, restSent) ==
    LET firsts == SelectSeq([k \in DOMAIN restSent |-> k],
                            LAMBDA k : \A l \in 1..(k - 1) :
                                          restSent[l] # restSent[k])
    IN  <<<<term, term, 1>>>>
        \o [k \in DOMAIN firsts |-> <<term, restSent[firsts[k]], 1>>]

\* The add_weight calls of one pass of the while loop of
\* construct_sentence_count, for term with the rest of its sentence.
CountTermCalls(term, restSent) ==
    <<<<term, term, 1>>>>
    \o [k \in DOMAIN restSent |-> <<term, restSent[k], 1>>]

\* The calls of the two for loops and the while loop.
SentenceCountCalls(doc) ==
    Concat([p \in DOMAIN doc |->
        Concat([s \in DOMAIN doc[p] |->
            Concat([i \in DOMAIN doc[p][s] |->
                CountTermCalls(doc[p][s][i], Drop(doc[p][s], i))])])])

\* construct_sentence_count
ConstructSentenceCount(doc) ==
    AddWeights(AMGraphNew(BuildLanguageOf(doc)), SentenceCountCalls(doc))

\* The value () of the edges of a Graph<()>.
Unit == <<>>

\* The pairs construct_sentence_link looks up in one pass of its while
\* loop: term with each later term of its sentence.
LinkTermPairs(term, restSent) ==
    [k \in DOMAIN restSent |-> <<term, restSent[k]>>]

\* The pairs looked up by the two for loops and the while loop.
SentenceLinkPairs(doc) ==
    Concat([p \in DOMAIN doc |->
        Concat([s \in DOMAIN doc[p] |->
            Concat([i \in DOMAIN doc[p][s] |->
                LinkTermPairs(doc[p][s][i], Drop(doc[p][s], i))])])])

\* *graph.get_mut(&term, &t).unwrap() = Some(()) for each pair of a list:
\* Ok of the graph left, or the panic of unwrap on Err.
RECURSIVE SetLinks(_, _)
SetLinks(g, pairs) ==
    IF pairs = <<>> THEN Ok(g)
    ELSE LET r == AMGraphSet(g, pairs[1][1], pairs[1][2], Some(Unit)) IN
         IF r.tag = "Ok" THEN SetLinks(r.val, Drop(pairs, 1)) ELSE Panic

\* construct_sentence_link
ConstructSentenceLink(doc) ==
    SetLinks(AMGraphNew(BuildLanguageOf(doc)), SentenceLinkPairs(doc))

\* ------------------------------------------------------------------ state
VARIABLES
    trie,       \* the IndexTrie
    inserted,   \* history: the set of strings insert was called with
    added,      \* history: the number of insert calls that returned true
    last,       \* the last call, what it returned and, for insert, the trie
                \* it was called on
    iter,       \* the live IndexTrieIterator: None, or Some(its state)
    yielded,    \* history: the strings the live iterator has returned
    graph,      \* the AMGraph: None, or Some of it once new has been called
    writes,     \* history: the number of writes made (get_mut calls, or
                \* index_mut calls on a matrix on its own)
    stored,     \* history: for each unordered pair of vertex labels, the
                \* value last written to its edge (None until then)
    edgeIter,   \* the live Edges iterator: None, or Some(its state)
    edgesOut,   \* history: the triples the live Edges iterator has returned
    mat,        \* a LowerTriangular on its own: the Vec it wraps
    matArgs,    \* the pair the matrix is indexed at and the value written
    overflowChecks, \* whether the build checks integer overflow
    graphs,     \* the slice of graphs vectorize is given
    language,   \* vectorize's shared vocabulary: None, or Some of it
    res,        \* vectorize's feature matrix: a row of cells for each graph
    tasks,      \* for each row, the Edges iterator of its task and whether
                \* the task has ended
    wrote,      \* history: the (task, row, cell) of every cell write
    disk,       \* the graph file: None, or Some of the JSON document in it
    damage,     \* history: what was altered in the file, "none" if nothing
    loaded,     \* None, or Some of what reading the file returned
    document,   \* the Document a graph is constructed from
    weights,    \* the weights array the construction is given
    built,      \* None, or Some of the graph the construction returned
    counted,    \* None, or Some of what construct_sentence_count returned
    linked      \* None, or Some of what construct_sentence_link returned

\* The variables of the graph's history and of its edge iterator.
graphAux == <<stored, edgeIter, edgesOut>>

\* The variables of the runs that are not of a trie or a graph.
trieGraphVars == <<trie, inserted, added, iter, yielded, graph, writes,
                   graphAux>>
matVars == <<mat, matArgs, overflowChecks>>
vecVars == <<graphs, language, res, tasks, wrote>>
loadVars == <<disk, damage, loaded>>
conVars == <<document, weights, built, counted, linked>>
beyondLoad == <<conVars>>
beyondVec == <<loadVars, beyondLoad>>
beyondMatrix == <<vecVars, beyondVec>>
beyondGraph == <<matVars, beyondMatrix>>

vars == <<trie, inserted, added, last, iter, yielded, graph, writes,
          graphAux, beyondGraph>>

NoCall == [op |-> "none"]

\* The trie and graph variables after IndexTrie::new, before any call.
TrieGraphInit ==
    /\ trie = NewTrie
    /\ inserted = {}
    /\ added = 0
    /\ iter = None
    /\ yielded = <<>>
    /\ graph = None
    /\ writes = 0
    /\ stored = [p \in {} |-> None]
    /\ edgeIter = None
    /\ edgesOut = <<>>

\* No LowerTriangular on its own.
MatrixUnused ==
    /\ mat = <<>>
    /\ matArgs = <<>>
    /\ overflowChecks = FALSE

\* No vectorize call.
VecUnused ==
    /\ graphs = <<>>
    /\ language = None
    /\ res = <<>>
    /\ tasks = <<>>
    /\ wrote = {}

\* No graph file.
LoadUnused ==
    /\ disk = None
    /\ damage = "none"
    /\ loaded = None

\* No graph construction.
ConUnused ==
    /\ document = <<>>
    /\ weights = <<>>
    /\ built = None
    /\ counted = None
    /\ linked = None

BeyondVecUnused == LoadUnused /\ ConUnused

Init ==
    /\ TrieGraphInit
    /\ last = NoCall
    /\ MatrixUnused
    /\ VecUnused
    /\ BeyondVecUnused

\* trie.insert(k).  A live iterator borrows the trie, so insert waits for it
\* to be dropped; AMGraph::new takes the trie, so no insert follows it.
Insert(k) ==
    /\ iter = None
    /\ graph = None
    /\ k \in inserted \/ Cardinality(inserted) < MaxStrings
    /\ LET r == TrieInsert(trie, k) IN
        /\ trie' = r.trie
        /\ added' = IF r.ret THEN added + 1 ELSE added
        /\ last' = [op |-> "insert", key |-> k, ret |-> r.ret,
                    present |-> k \in inserted, before |-> trie]
    /\ inserted' = inserted \cup {k}
    /\ UNCHANGED <<iter, yielded, graph, writes, graphAux>>
    /\ UNCHANGED beyondGraph

\* (&trie).into_iter()
StartIter ==
    /\ iter = None
    /\ iter' = Some(IntoIter(trie))
    /\ yielded' = <<>>
    /\ last' = [op |-> "into_iter"]
    /\ UNCHANGED <<trie, inserted, added, graph, writes, graphAux>>
    /\ UNCHANGED beyondGraph

\* iter.next()
Next_ ==
    /\ IsSome(iter)
    /\ LET r == IterNext(Unwrap(iter)) IN
        /\ iter' = Some(r.state)
        /\ yielded' = IF IsSome(r.item) THEN Append(yielded, Unwrap(r.item))
                      ELSE yielded
        /\ last' = [op |-> "next", ret |-> r.item]
    /\ UNCHANGED <<trie, inserted, added, graph, writes, graphAux>>
    /\ UNCHANGED beyondGraph

\* The iterator is dropped.
DropIter ==
    /\ IsSome(iter)
    /\ iter' = None
    /\ yielded' = <<>>
    /\ last' = NoCall
    /\ UNCHANGED <<trie, inserted, added, graph, writes, graphAux>>
    /\ UNCHANGED beyondGraph

\* The trie as it is built: insert calls only.
Next ==
    \E k \in Keys : Insert(k)

Spec == Init /\ [][Next]_vars

\* The trie built and iterated: insert calls, and iterators created, advanced
\* and dropped between them.
NextIter ==
    \/ \E k \in Keys : Insert(k)
    \/ StartIter
    \/ Next_
    \/ DropIter

SpecIter == Init /\ [][NextIter]_vars

\* ------------------------------------------------------------------ graph run
\* The edge weights written, and what a caller stores through get_mut.
Weights == {1, 2}
EdgeValues == {None} \cup {Some(w) : w \in Weights}

\* The vertex labels: "a", "b", "aa", "ab".
Labels == {<<97>>, <<98>>, <<97, 97>>, <<97, 98>>}

\* The unordered pairs of a set of labels, self-pairs included.
PairsOf(S) == {{a, b} : a, b \in S}

\* Graph::new(trie) on the trie built so far.
NewGraph ==
    /\ graph = None
    /\ iter = None
    /\ graph' = Some(AMGraphNew(trie))
    /\ last' = [op |-> "new"]
    /\ stored' = [p \in PairsOf(inserted) |-> None]
    /\ UNCHANGED <<trie, inserted, added, iter, yielded, writes, edgeIter,
                   edgesOut>>
    /\ UNCHANGED beyondGraph

\* *graph.get_mut(v1, v2)? = e.  get_mut borrows the graph mutably, so it waits
\* for the iterators over the graph to be dropped.
SetEdge(v1, v2, e) ==
    /\ IsSome(graph)
    /\ iter = None
    /\ edgeIter = None
    /\ writes < MaxWrites
    /\ LET r == AMGraphSet(Unwrap(graph), v1, v2, e) IN
        /\ graph' = IF r.tag = "Ok" THEN Some(r.val) ELSE graph
        /\ last' = [op |-> "get_mut", v1 |-> v1, v2 |-> v2, e |-> e,
                    tag |-> r.tag]
    /\ writes' = writes + 1
    /\ stored' = IF v1 \in inserted /\ v2 \in inserted
                 THEN [stored EXCEPT ![{v1, v2}] = e]
                 ELSE stored
    /\ UNCHANGED <<trie, inserted, added, iter, yielded, edgeIter, edgesOut>>
    /\ UNCHANGED beyondGraph

\* graph.get(v1, v2)
GetEdge(v1, v2) ==
    /\ IsSome(graph)
    /\ iter = None
    /\ edgeIter = None
    /\ last' = [op |-> "get", v1 |-> v1, v2 |-> v2,
                ret |-> AMGraphGet(Unwrap(graph), v1, v2)]
    /\ UNCHANGED <<trie, inserted, added, iter, yielded, graph, writes,
                   graphAux>>
    /\ UNCHANGED beyondGraph

\* graph.contains_vertex(v)
ContainsVertex(v) ==
    /\ IsSome(graph)
    /\ iter = None
    /\ edgeIter = None
    /\ last' = [op |-> "contains_vertex", v |-> v,
                ret |-> AMGraphContainsVertex(Unwrap(graph), v)]
    /\ UNCHANGED <<trie, inserted, added, iter, yielded, graph, writes,
                   graphAux>>
    /\ UNCHANGED beyondGraph

\* graph.vertices()
Vertices ==
    /\ IsSome(graph)
    /\ iter = None
    /\ edgeIter = None
    /\ iter' = Some(IntoIter(Unwrap(graph).map))
    /\ yielded' = <<>>
    /\ last' = [op |-> "vertices"]
    /\ UNCHANGED <<trie, inserted, added, graph, writes, graphAux>>
    /\ UNCHANGED beyondGraph

\* graph.edges()
StartEdges ==
    /\ IsSome(graph)
    /\ iter = None
    /\ edgeIter = None
    /\ edgeIter' = Some(AMGraphEdges(Unwrap(graph)))
    /\ edgesOut' = <<>>
    /\ last' = [op |-> "edges"]
    /\ UNCHANGED <<trie, inserted, added, iter, yielded, graph, writes,
                   stored>>
    /\ UNCHANGED beyondGraph

\* edges.next()
NextEdge ==
    /\ IsSome(edgeIter)
    /\ LET r == EdgesNext(Unwrap(graph), Unwrap(edgeIter)) IN
        /\ edgeIter' = IF r.tag = "Ok" THEN Some(r.state) ELSE edgeIter
        /\ edgesOut' = IF r.tag = "Ok" /\ IsSome(r.item)
                       THEN Append(edgesOut, Unwrap(r.item))
                       ELSE edgesOut
        /\ last' = IF r.tag = "Ok"
                   THEN [op |-> "next_edge", tag |-> "Ok", ret |-> r.item]
                   ELSE [op |-> "next_edge", tag |-> r.tag]
    /\ UNCHANGED <<trie, inserted, added, iter, yielded, graph, writes,
                   stored>>
    /\ UNCHANGED beyondGraph

\* The Edges iterator is dropped.
DropEdges ==
    /\ IsSome(edgeIter)
    /\ edgeIter' = None
    /\ edgesOut' = <<>>
    /\ last' = NoCall
    /\ UNCHANGED <<trie, inserted, added, iter, yielded, graph, writes,
                   stored>>
    /\ UNCHANGED beyondGraph

\* A graph built over some of the labels, then read, written and iterated.
NextGraph ==
    \/ \E k \in Labels : Insert(k)
    \/ NewGraph
    \/ \E v1, v2 \in Labels, e \in EdgeValues : SetEdge(v1, v2, e)
    \/ \E v1, v2 \in Labels : GetEdge(v1, v2)
    \/ \E v \in Labels : ContainsVertex(v)
    \/ Vertices
    \/ Next_
    \/ DropIter
    \/ StartEdges
    \/ NextEdge
    \/ DropEdges

SpecGraph == Init /\ [][NextGraph]_vars

\* ------------------------------------------------------------------ matrix run
\* Every usize.
Indices == 0..UsizeMax

\* A matrix as AMGraph::new allocates it for n vertices, in a build that
\* checks integer overflow or in one that does not, and the pair of usize
\* values it is indexed at.
InitMatrix ==
    /\ TrieGraphInit
    /\ last = NoCall
    /\ \E n \in 0..MaxStrings : mat = AMGraphNew([len |-> n]).edges
    /\ matArgs \in [i : Indices, j : Indices, v : EdgeValues]
    /\ overflowChecks \in BOOLEAN
    /\ VecUnused
    /\ BeyondVecUnused

\* &mat[(i, j)]
MatIndex ==
    /\ last' = [op |-> "index", before |-> mat,
                ret |-> LTIndexIn(overflowChecks, mat, matArgs.i, matArgs.j)]
    /\ UNCHANGED <<trieGraphVars, matVars>>
    /\ UNCHANGED beyondMatrix

\* mat[(i, j)] = v
MatIndexMut ==
    /\ writes < MaxWrites
    /\ LET r == LTIndexMutIn(overflowChecks, mat, matArgs.i, matArgs.j,
                             matArgs.v)
       IN
        /\ mat' = IF r.tag = "Ok" THEN r.val ELSE mat
        /\ last' = [op |-> "index_mut", before |-> mat,
                    ret |-> [tag |-> r.tag]]
    /\ writes' = writes + 1
    /\ UNCHANGED <<trie, inserted, added, iter, yielded, graph, graphAux,
                   matArgs, overflowChecks>>
    /\ UNCHANGED beyondMatrix

\* A packed matrix read and written at a pair of usize values.
NextMatrix ==
    \/ MatIndex
    \/ MatIndexMut

SpecMatrix == InitMatrix /\ [][NextMatrix]_vars

\* ------------------------------------------------------------------ vectorize run
\* Most graphs vectorize is given.
MaxGraphs == 5

\* A graph over the labels of vs with the edges of es written.
RECURSIVE WithEdges(_, _)
WithEdges(g, es) ==
    IF es = <<>> THEN g
    ELSE AMGraphSet(WithEdges(g, Take(es, Len(es) - 1)),
                    es[Len(es)][1], es[Len(es)][2],
                    Some(es[Len(es)][3])).val

MkGraph(vs, es) == WithEdges(AMGraphNew(FromIter(vs)), es)

\* The graphs the batches are made of, over the labels "a", "ab", "b".
Pool ==
    { MkGraph(<<<<97>>, <<98>>>>,
              << <<<<97>>, <<98>>, 1>>, <<<<98>>, <<98>>, 2>> >>),
      MkGraph(<<<<97>>, <<97, 98>>, <<98>>>>,
              << <<<<97>>, <<97, 98>>, 1>>, <<<<98>>, <<97>>, 2>> >>),
      MkGraph(<<<<98>>, <<97, 98>>>>,
              << <<<<97, 98>>, <<98>>, 1>> >>) }

Batches(lens) == UNION {[1..n -> Pool] : n \in lens}

\* vectorize(graphs) is called on a batch.
InitVecOn(lens) ==
    /\ TrieGraphInit
    /\ last = NoCall
    /\ MatrixUnused
    /\ graphs \in Batches(lens)
    /\ language = None
    /\ res = <<>>
    /\ tasks = <<>>
    /\ wrote = {}
    /\ BeyondVecUnused

\* The shared vocabulary is counted, filtered and collected in the order the
\* HashMap yields it, and the matrix of zeros is allocated; the task of every
\* row is ready to run.
BuildLanguage ==
    /\ language = None
    /\ \E o \in Orders(Retained(graphs)) :
          LET lang == FromIter(o)
              dim == lang.len
              len == (dim * (dim + 1)) \div 2
              n == Len(graphs)
          IN  /\ language' = Some(lang)
              /\ res' = Zeros(n, len)
              /\ tasks' = [k \in 1..n |->
                            [it |-> AMGraphEdges(graphs[k]), done |-> FALSE]]
    /\ last' = [op |-> "language"]
    /\ UNCHANGED <<trieGraphVars, matVars, graphs, wrote>>
    /\ UNCHANGED beyondVec

\* The task of the k-th graph visits its next edge, or finds no more and
\* ends.
TaskStep(k) ==
    /\ IsSome(language)
    /\ k \in DOMAIN tasks
    /\ ~tasks[k].done
    /\ LET r == EdgesNext(graphs[k], tasks[k].it)
           row == TaskRow(k)
       IN
        IF r.tag = "Ok" /\ IsSome(r.item)
        THEN LET w == VisitEdge(res[row], Unwrap(language), Unwrap(r.item)) IN
             /\ w.tag = "Ok"
             /\ res' = [res EXCEPT ![row] = w.row]
             /\ wrote' = wrote \cup {<<k, row, c>> : c \in w.cells}
             /\ tasks' = [tasks EXCEPT ![k].it = r.state]
        ELSE /\ tasks' = [tasks EXCEPT ![k].done = TRUE]
             /\ UNCHANGED <<res, wrote>>
    /\ last' = [op |-> "task", k |-> k]
    /\ UNCHANGED <<trieGraphVars, matVars, graphs, language>>
    /\ UNCHANGED beyondVec

\* vectorize with the rows filled one after the other.
NextVec ==
    \/ BuildLanguage
    \/ \E k \in 1..MaxGraphs :
          /\ k \in DOMAIN tasks
          /\ \A j \in 1..(k - 1) : tasks[j].done
          /\ TaskStep(k)

SpecVec == InitVecOn(0..MaxGraphs) /\ [][NextVec]_vars

\* vectorize with the tasks of the rows run in parallel: a step of any task
\* that has not ended.
NextPar ==
    \/ BuildLanguage
    \/ \E k \in 1..(FreqThreshold + 1) : TaskStep(k)

SpecPar == InitVecOn({FreqThreshold + 1}) /\ [][NextPar]_vars

\* ------------------------------------------------------------------ load run
\* The ways the file is altered between its writing and its reading.
Damages == {"top_len", "branch_len", "siblings", "slots", "variant"}

\* The first branch of a node list with its size raised by one.
BranchLenRaised(nodes) ==
    IF \E j \in DOMAIN nodes : nodes[j].variant = "NonLeaf"
    THEN LET j == CHOOSE i \in DOMAIN nodes : nodes[i].variant = "NonLeaf"
         IN  [nodes EXCEPT ![j].len = @ + 1]
    ELSE nodes

Reversed(seq) == [j \in DOMAIN seq |-> seq[Len(seq) + 1 - j]]

\* The document with one thing altered.
Damaged(doc, d) ==
    CASE d = "top_len" -> [doc EXCEPT !.map.len = @ + 1]
      [] d = "branch_len" ->
            [doc EXCEPT !.map.roots = BranchLenRaised(@)]
      [] d = "siblings" -> [doc EXCEPT !.map.roots = Reversed(@)]
      [] d = "slots" -> [doc EXCEPT !.edges = Take(@, Len(@) - 1)]
      [] d = "variant" ->
            [doc EXCEPT !.map.roots =
                [j \in DOMAIN @ |->
                    IF j = 1 THEN [@[j] EXCEPT !.variant = "Branch"]
                    ELSE @[j]]]

\* serde_json::to_writer(outfile, &graph)
Save ==
    /\ IsSome(graph)
    /\ disk = None
    /\ disk' = Some(Serialize(Unwrap(graph)))
    /\ last' = [op |-> "to_writer"]
    /\ UNCHANGED <<trieGraphVars, matVars, vecVars, damage, loaded>>
    /\ UNCHANGED beyondLoad

\* The file is altered, once, before it is read.
Damage(d) ==
    /\ IsSome(disk)
    /\ damage = "none"
    /\ loaded = None
    /\ Damaged(Unwrap(disk), d) # Unwrap(disk)
    /\ disk' = Some(Damaged(Unwrap(disk), d))
    /\ damage' = d
    /\ last' = NoCall
    /\ UNCHANGED <<trieGraphVars, matVars, vecVars, loaded>>
    /\ UNCHANGED beyondLoad

\* serde_json::from_reader(reader)
Load ==
    /\ IsSome(disk)
    /\ loaded = None
    /\ loaded' = Some(Deserialize(Unwrap(disk)))
    /\ last' = [op |-> "from_reader"]
    /\ UNCHANGED <<trieGraphVars, matVars, vecVars, disk, damage>>
    /\ UNCHANGED beyondLoad

\* A graph is built and written to a file; the file, altered or not, is read
\* back.
NextLoad ==
    \/ \E k \in Labels : Insert(k)
    \/ NewGraph
    \/ \E v1, v2 \in Labels, e \in EdgeValues :
          disk = None /\ SetEdge(v1, v2, e)
    \/ Save
    \/ \E d \in Damages : Damage(d)
    \/ Load

SpecLoad == Init /\ [][NextLoad]_vars

\* ------------------------------------------------------------------ construct run
\* Most tokens (terms, sentence ends, paragraph ends) of a document.
MaxTokens == 4

\* The terms of the documents: "a", "ab", "b".
Terms == {<<97>>, <<97, 98>>, <<98>>}
\* The end of a sentence (a newline) and of a paragraph (a blank line).
SentenceEnd == <<10>>
ParagraphEnd == <<10, 10>>

RECURSIVE TokenSeqs(_)
TokenSeqs(n) ==
    IF n = 0 THEN {<<>>}
    ELSE LET shorter == TokenSeqs(n - 1) IN
         shorter \cup {Append(ts, t) : ts \in {x \in shorter : Len(x) = n - 1},
                                       t \in Terms \cup {SentenceEnd,
                                                          ParagraphEnd}}

\* The pieces of a token sequence between the occurrences of sep.
RECURSIVE SplitOn(_, _)
SplitOn(ts, sep) ==
    IF \E i \in DOMAIN ts : ts[i] = sep
    THEN LET i == CHOOSE j \in DOMAIN ts :
                     ts[j] = sep /\ \A l \in 1..(j - 1) : ts[l] # sep
         IN  <<Take(ts, i - 1)>> \o SplitOn(Drop(ts, i), sep)
    ELSE <<ts>>

\* The Document of a token sequence: paragraphs of sentences of terms.
DocumentOf(ts) ==
    LET pars == SplitOn(ts, ParagraphEnd) IN
    [p \in DOMAIN pars |-> SplitOn(pars[p], SentenceEnd)]

\* The weights arrays [self, sentence, paragraph, document]: all zero, the
\* configured one doubled, and one of distinct weights.
WeightArrays == {<<0, 0, 0, 0>>, <<0, 2, 1, 0>>, <<1, 2, 3, 5>>}

\* Documents no token sequence splits into: no paragraph at all, a paragraph
\* of no sentence, and one such before a paragraph of an empty sentence and
\* a sentence of two terms.
SparseDocuments ==
    {<<>>,
     << <<>> >>,
     << <<>>, << <<>>, << <<97>>, <<98>> >> >> >>}

\* A document and a weights array.
InitCon ==
    /\ TrieGraphInit
    /\ last = NoCall
    /\ MatrixUnused
    /\ VecUnused
    /\ LoadUnused
    /\ document \in {DocumentOf(ts) : ts \in TokenSeqs(MaxTokens)}
                      \cup SparseDocuments
    /\ weights \in WeightArrays
    /\ built = None
    /\ counted = None
    /\ linked = None

\* construct_hierarchial_weighed(&document, weights)
Construct ==
    /\ built = None
    /\ built' = Some(ConstructHierarchialWeighed(document, weights))
    /\ last' = [op |-> "construct_hierarchial_weighed"]
    /\ UNCHANGED <<trieGraphVars, matVars, vecVars, loadVars, document,
                   weights, counted, linked>>

\* construct_sentence_count(&document)
ConstructCount ==
    /\ counted = None
    /\ counted' = Some(ConstructSentenceCount(document))
    /\ last' = [op |-> "construct_sentence_count"]
    /\ UNCHANGED <<trieGraphVars, matVars, vecVars, loadVars, document,
                   weights, built, linked>>

\* construct_sentence_link(&document)
ConstructLink ==
    /\ linked = None
    /\ linked' = Some(ConstructSentenceLink(document))
    /\ last' = [op |-> "construct_sentence_link"]
    /\ UNCHANGED <<trieGraphVars, matVars, vecVars, loadVars, document,
                   weights, built, counted>>

NextCon ==
    \/ Construct
    \/ ConstructCount
    \/ ConstructLink

SpecCon == InitCon /\ [][NextCon]_vars

\* ------------------------------------------------------------------ reference
\* Byte-lexicographic order on strings.
Lt(a, b) == Cmp(a, b) = "Less"

\* The sorted, deduplicated list of a set of strings.
RECURSIVE SortedSeq(_)
SortedSeq(S) ==
    IF S = {} THEN <<>>
    ELSE LET m == CHOOSE x \in S : \A y \in S : y = x \/ Lt(x, y)
         IN  <<m>> \o SortedSeq(S \ {m})

\* The number of strings of S strictly less than s.
RankIn(S, s) == Cardinality({t \in S : Lt(t, s)})

\* The pairs (row, col) with col <= row < n from (row, col) on, row by row.
RECURSIVE RowMajor(_, _, _)
RowMajor(row, col, n) ==
    IF row >= n THEN <<>>
    ELSE <<<<row, col>>>> \o (IF col < row THEN RowMajor(row, col + 1, n)
                             ELSE RowMajor(row + 1, 0, n))

\* The triples of the present edges of the history, in row-major order of
\* the ranks of their labels.
ExpectedEdges ==
    LET ref == SortedSeq(inserted)
        PairOf(p) == {ref[p[1] + 1], ref[p[2] + 1]}
        Present(p) == IsSome(stored[PairOf(p)])
        present == SelectSeq(RowMajor(0, 0, Len(ref)), Present)
    IN  [k \in 1..Len(present) |->
            <<ref[present[k][1] + 1], ref[present[k][2] + 1],
              Unwrap(stored[PairOf(present[k])])>>]

IsProperPrefix(s, t) == Len(s) < Len(t) /\ Take(t, Len(s)) = s

Ranks == 0..(MaxStrings + 2)

\* The leaves of a node list: the string each spells with the prefixes of its
\* ancestors (acc), its suffix and its 0-based position among its siblings.
RECURSIVE Leaves(_, _)
Leaves(nodes, acc) ==
    UNION {
        IF nodes[j].kind = "Leaf"
        THEN {[str |-> acc \o nodes[j].rest, rest |-> nodes[j].rest, pos |-> j - 1]}
        ELSE Leaves(nodes[j].children, acc \o nodes[j].prefix)
        : j \in 1..Len(nodes)}

\* Some branch of the node list has a branch among its children.
HasNestedBranch(nodes) ==
    \E j \in 1..Len(nodes) :
        /\ nodes[j].kind = "NonLeaf"
        /\ \E c \in 1..Len(nodes[j].children) :
               nodes[j].children[c].kind = "NonLeaf"

\* ------------------------------------------------------------------ claims
\* C1. Bijection: for every inserted string s, get(s) is a rank r with
\* get(r) = s, and for every rank r < len(), get(r) is a string s with
\* get(s) = r.
C1_Bijection ==
    /\ \A s \in inserted :
          LET r == GetByStr(trie, s) IN
          IsSome(r) /\ GetByIndex(trie, Unwrap(r)) = Some(s)
    /\ \A r \in 0..(trie.len - 1) :
          LET s == GetByIndex(trie, r) IN
          IsSome(s) /\ GetByStr(trie, Unwrap(s)) = Some(r)

C1_Witness ==
    /\ trie.len = 3
    /\ HasNestedBranch(trie.roots)
    /\ \E s \in inserted : GetByStr(trie, s) = Some(2)

\* C2. Rank to string: for every r < len(), get(r) is the r-th element of
\* the sorted, deduplicated list of the inserted strings, and for every
\* r >= len() get(r) is None.
C2_RankToString ==
    LET ref == SortedSeq(inserted) IN
    \A r \in Ranks :
        /\ r < trie.len => r < Len(ref) /\ GetByIndex(trie, r) = Some(ref[r + 1])
        /\ r >= trie.len => GetByIndex(trie, r) = None

C2_Witness ==
    /\ trie.len = 3
    /\ last.op = "insert" /\ last.present
    /\ GetByIndex(trie, 0) = Some(<<>>)
    /\ IsSome(GetByIndex(trie, 2))
    /\ GetByIndex(trie, 3) = None

\* C3. String to rank: get(s) is Some(i), i the number of stored strings
\* strictly less than s, when s was inserted, and None for every string never
\* inserted (proper prefixes and extensions of stored strings and the empty
\* string included).
C3_StringToRank ==
    \A k \in Keys :
        GetByStr(trie, k) =
            IF k \in inserted THEN Some(RankIn(inserted, k)) ELSE None

C3_Witness ==
    /\ trie.len = 3
    /\ <<>> \notin inserted /\ GetByStr(trie, <<>>) = None
    /\ \E s \in inserted, k \in Keys \ inserted :
          IsProperPrefix(k, s) /\ k # <<>> /\ GetByStr(trie, k) = None
    /\ \E s \in inserted, k \in Keys \ inserted :
          IsProperPrefix(s, k) /\ GetByStr(trie, k) = None
    /\ \E s \in inserted : GetByStr(trie, s) = Some(2)

\* C4. Iteration: a fresh iterator yields every inserted string exactly once
\* in ascending order and then ends: what it has yielded is always a prefix
\* of the sorted, deduplicated list of the inserted strings, next returns
\* None exactly when the whole list has been yielded.
C4_Iteration ==
    IsSome(iter) =>
        LET ref == SortedSeq(inserted) IN
        /\ Len(yielded) <= Len(ref)
        /\ yielded = Take(ref, Len(yielded))
        /\ (IterNext(Unwrap(iter)).item = None) <=> (yielded = ref)
        /\ last.op = "next" =>
              IF IsSome(last.ret)
              THEN last.ret = Some(ref[Len(yielded)])
              ELSE yielded = ref

C4_Witness ==
    /\ IsSome(iter)
    /\ last.op = "next" /\ last.ret = None
    /\ Len(yielded) = 3
    /\ HasNestedBranch(trie.roots)

\* C5. Idempotent insert: inserting a string that is already present returns
\* false and leaves len(), the rank of every string and the string at every
\* rank unchanged.
C5_IdempotentInsert ==
    (last.op = "insert" /\ last.present) =>
        /\ last.ret = FALSE
        /\ trie.len = last.before.len
        /\ \A k \in inserted : GetByStr(trie, k) = GetByStr(last.before, k)
        /\ \A r \in Ranks : GetByIndex(trie, r) = GetByIndex(last.before, r)

C5_Witness ==
    /\ last.op = "insert" /\ last.present /\ ~last.ret
    /\ trie.len = 3
    /\ GetByStr(trie, last.key) = Some(1)

\* C6. insert(s) returns true exactly when s was not already stored, and
\* len() is the number of distinct strings inserted, which is the number of
\* insert calls that returned true.
C6_InsertReturnAndLen ==
    /\ last.op = "insert" => (last.ret <=> ~last.present)
    /\ trie.len = Cardinality(inserted)
    /\ trie.len = added

C6_Witness ==
    /\ last.op = "insert" /\ last.ret
    /\ trie.len = 3 /\ added = 3
    /\ last.before.len = 2

\* C7. Rank shift: when insert(s) adds a new string, every previously stored
\* string greater than s has its rank increased by exactly one and every
\* previously stored string less than s keeps its rank.
C7_RankShift ==
    (last.op = "insert" /\ last.ret) =>
        \A t \in inserted \ {last.key} :
            LET old == GetByStr(last.before, t) IN
            /\ IsSome(old)
            /\ GetByStr(trie, t) =
                  Some(Unwrap(old) + (IF Lt(last.key, t) THEN 1 ELSE 0))

C7_Witness ==
    /\ last.op = "insert" /\ last.ret
    /\ \E t, u \in inserted :
          /\ Lt(t, last.key) /\ Lt(last.key, u)
          /\ GetByStr(last.before, u) = Some(1)
          /\ GetByStr(trie, u) = Some(2)
          /\ GetByStr(trie, t) = Some(0)

\* C8. Exact size: after k calls of next on an iterator over a trie of n
\* strings, size_hint reports n - k (as long as strings are left, then 0),
\* whatever the shape of the trie.
C8_ExactSize ==
    IsSome(iter) => SizeHint(Unwrap(iter)) = trie.len - Len(yielded)

C8_Witness ==
    /\ IsSome(iter)
    /\ Len(Unwrap(iter)) = 3
    /\ Len(yielded) = 2
    /\ IsProperPrefix(yielded[1], yielded[2])
    /\ SizeHint(Unwrap(iter)) = 1

\* C9. The empty string is a storable key: inserting "" into a trie that
\* lacks it returns true and gives it rank 0; a stored string that is a proper
\* prefix of another stored string is held by an empty-suffix leaf that is
\* the first of its sibling list; a second insert of such a key returns
\* false.
C9_EmptySuffixLeaf ==
    LET ls == Leaves(trie.roots, <<>>)
        short == {s \in inserted : \E t \in inserted : IsProperPrefix(s, t)}
    IN
    /\ (last.op = "insert" /\ last.key = <<>> /\ ~last.present) =>
          last.ret /\ GetByStr(trie, <<>>) = Some(0)
    /\ \A s \in short :
          /\ \E l \in ls : l.str = s
          /\ \A l \in ls : l.str = s => l.rest = <<>> /\ l.pos = 0
    /\ (last.op = "insert" /\ last.present
          /\ (last.key = <<>> \/ last.key \in short)) => ~last.ret

C9_Witness ==
    /\ last.op = "insert" /\ last.present /\ ~last.ret
    /\ last.key # <<>>
    /\ <<>> \in inserted
    /\ \E t \in inserted : IsProperPrefix(last.key, t)
    /\ \E l \in Leaves(trie.roots, <<>>) :
          l.str = last.key /\ l.rest = <<>> /\ l.pos = 0
    /\ GetByStr(trie, <<>>) = Some(0)

\* C10. Symmetric storage: for every pair (i, j) with i, j < N a write at
\* (i, j) is observed by a read at (j, i); and after the edge of (v1, v2) is
\* set to e through get_mut, get(v1, v2) and get(v2, v1) both yield e.
C10_SymmetricStorage ==
    IsSome(graph) =>
        LET g == Unwrap(graph) IN
        /\ \A i, j \in 0..(g.map.len - 1), e \in EdgeValues :
              LET w == LTIndexMut(g.edges, i, j, e) IN
              w.tag = "Ok" /\ LTIndex(w.val, j, i) = Ok(e)
        /\ (last.op = "get_mut" /\ last.tag = "Ok") =>
              /\ AMGraphGet(g, last.v1, last.v2) = Ok(last.e)
              /\ AMGraphGet(g, last.v2, last.v1) = Ok(last.e)

C10_Witness ==
    /\ IsSome(graph)
    /\ Unwrap(graph).map.len = 3
    /\ last.op = "get_mut" /\ last.tag = "Ok"
    /\ last.e = Some(2)
    /\ Lt(last.v1, last.v2)
    /\ GetByStr(Unwrap(graph).map, last.v1) = Some(0)
    /\ GetByStr(Unwrap(graph).map, last.v2) = Some(2)
    /\ AMGraphGet(Unwrap(graph), last.v2, last.v1) = Ok(Some(2))
    /\ writes = 2

\* C11. Unknown vertex: get(v1, v2) and get_mut(v1, v2) return Err whenever v1
\* or v2 is not a vertex label and Ok otherwise, and a failing call leaves the
\* graph (its vertex index and every edge value) as it was.  Stated of every
\* step that is such a call.
C11_UnknownVertex ==
    [][LET known == last'.v1 \in inserted /\ last'.v2 \in inserted IN
       /\ last'.op = "get" =>
             /\ last'.ret.tag = (IF known THEN "Ok" ELSE "Err")
             /\ graph' = graph
       /\ (last'.op = "get_mut" /\ writes' = writes + 1) =>
             /\ last'.tag = (IF known THEN "Ok" ELSE "Err")
             /\ ~known => graph' = graph
      ]_vars

C11_Witness ==
    /\ last.op = "get_mut" /\ last.tag = "Err"
    /\ last.v1 \in inserted /\ last.v2 \notin inserted
    /\ Cardinality(inserted) = 2
    /\ writes = 2
    /\ \E p \in DOMAIN stored : IsSome(stored[p])

\* C12. edges() yields exactly one triple for every unordered pair of vertices
\* whose stored value is present and none for the absent pairs, in ascending
\* (row, col) order with col <= row, the first label being the string at rank
\* row and the second the string at rank col; once every such triple has been
\* returned, next returns None, and it does so on every further call.
C12_EdgesIteration ==
    IsSome(edgeIter) =>
        LET r == EdgesNext(Unwrap(graph), Unwrap(edgeIter))
            n == Len(edgesOut)
        IN
        /\ n <= Len(ExpectedEdges)
        /\ edgesOut = SubSeq(ExpectedEdges, 1, n)
        /\ r.tag = "Ok"
        /\ r.item = (IF n < Len(ExpectedEdges) THEN Some(ExpectedEdges[n + 1])
                     ELSE None)
        /\ last.op = "next_edge" =>
              /\ last.tag = "Ok"
              /\ last.ret = None => edgesOut = ExpectedEdges /\ r.item = None

C12_Witness ==
    /\ IsSome(edgeIter)
    /\ Cardinality(inserted) = 3
    /\ Len(edgesOut) = 2
    /\ Lt(edgesOut[1][2], edgesOut[1][1])
    /\ edgesOut[2][1] = edgesOut[2][2]
    /\ last.op = "next_edge" /\ last.ret = None
    /\ Unwrap(edgeIter).row = 3

\* C13. The vertex set of a graph is immutable after construction: after any
\* sequence of get, get_mut (with any edge write), contains_vertex, vertices
\* and edges calls, len() and the label at every rank are those of the index
\* new() was given, that is, of the strings inserted before it.
C13_VertexSetImmutable ==
    IsSome(graph) =>
        LET g == Unwrap(graph)
            ref == SortedSeq(inserted)
        IN
        /\ AMGraphLen(g) = trie.len
        /\ AMGraphLen(g) = Len(ref)
        /\ \A r \in Ranks :
              /\ GetByIndex(g.map, r) = GetByIndex(trie, r)
              /\ GetByIndex(g.map, r) =
                    (IF r < Len(ref) THEN Some(ref[r + 1]) ELSE None)

C13_Witness ==
    /\ IsSome(graph)
    /\ writes = 2
    /\ \E p \in DOMAIN stored : IsSome(stored[p])
    /\ IsSome(iter)
    /\ last.op = "next" /\ last.ret = None
    /\ Len(yielded) = 3
    /\ AMGraphLen(Unwrap(graph)) = 3

\* C14. Graph construction: new(map) allocates exactly N(N+1)/2 edge slots
\* for the N strings of map, and every pair of vertices, self-pairs included,
\* reads as absent until it is written: right after new every pair reads
\* None, and later every pair reads the value last written to it, None if
\* there was no write.
C14_Construction ==
    IsSome(graph) =>
        LET g == Unwrap(graph)
            N == Cardinality(inserted)
        IN
        /\ Len(g.edges) = (N * (N + 1)) \div 2
        /\ \A v1, v2 \in inserted :
              /\ AMGraphGet(g, v1, v2) = Ok(stored[{v1, v2}])
              /\ last.op = "new" => AMGraphGet(g, v1, v2) = Ok(None)

C14_Witness ==
    /\ IsSome(graph)
    /\ Cardinality(inserted) = 3
    /\ Len(Unwrap(graph).edges) = 6
    /\ last.op = "get_mut" /\ last.tag = "Ok" /\ IsSome(last.e)
    /\ writes = 1
    /\ \E v \in inserted :
          /\ {v} # {last.v1, last.v2}
          /\ AMGraphGet(Unwrap(graph), v, v) = Ok(None)

\* The N of a matrix of N(N+1)/2 slots.
MatDim(m) == CHOOSE n \in 0..Len(m) : (n * (n + 1)) \div 2 = Len(m)

\* C15. Out-of-range matrix access fails fast: on a packed matrix of
\* N(N+1)/2 slots, every read or write at a pair (i, j) with max(i, j) >= N
\* panics, and leaves the matrix as it was.
C15_OutOfRangePanics ==
    (last.op \in {"index", "index_mut"}
        /\ Max(matArgs.i, matArgs.j) >= MatDim(last.before)) =>
            last.ret.tag = "Panic" /\ mat = last.before

\* The number of graphs of the batch that have w as a vertex.
NumContaining(w) ==
    Cardinality({k \in DOMAIN graphs : AMGraphContainsVertex(graphs[k], w)})

\* The labels that are vertices of more than FreqThreshold graphs.
Frequent == {w \in Labels : NumContaining(w) > FreqThreshold}

\* C16. The shared vocabulary of vectorize is exactly the set of labels that
\* are vertices of more than 3 of the input graphs: such a label is in it,
\* and a label of 3 graphs or fewer is not, whether or not it carries edges.
C16_SharedVocabulary ==
    IsSome(language) =>
        LET lang == Unwrap(language) IN
        /\ \A w \in Labels : IsSome(GetByStr(lang, w)) <=> w \in Frequent
        /\ Drain(IntoIter(lang)) = SortedSeq(Frequent)
        /\ lang.len = Cardinality(Frequent)

C16_Witness ==
    /\ IsSome(language)
    /\ NumContaining(<<97, 98>>) = FreqThreshold
    /\ NumContaining(<<97>>) = FreqThreshold + 1
    /\ GetByStr(Unwrap(language), <<97, 98>>) = None
    /\ GetByStr(Unwrap(language), <<97>>) = Some(0)
    /\ GetByStr(Unwrap(language), <<98>>) = Some(1)
    /\ \E k \in DOMAIN graphs :
          AMGraphGet(graphs[k], <<97, 98>>, <<98>>) = Ok(Some(1))

\* The numeric value of the edge {u, v} of the k-th graph: its weight when
\* both are vertices and the edge is present, and 0 otherwise.
EdgeValueOr0(k, u, v) ==
    LET r == AMGraphGet(graphs[k], u, v) IN
    IF r.tag = "Ok" /\ IsSome(r.val) THEN Unwrap(r.val) ELSE 0

\* The column of the pair {u, v} of frequent labels, from their ranks among
\* the frequent labels.
ColumnOf(u, v) ==
    LET ru == RankIn(Frequent, u)
        rv == RankIn(Frequent, v)
    IN  (Max(ru, rv) * (Max(ru, rv) + 1)) \div 2 + Min(ru, rv)

\* C17. Feature-matrix cells: the matrix has a row for every graph and a
\* column for every unordered pair of labels of the shared vocabulary; the
\* cell of graph k and pair {u, v}, at column
\* max(ru,rv)*(max(ru,rv)+1)/2 + min(ru,rv), holds 0 until the task of row k
\* writes it and, once that task has ended, the value of the edge {u, v} of
\* graph k when the edge is present and 0 otherwise.  Every cell is the cell
\* of such a pair, so an edge with an endpoint outside the vocabulary changes
\* none.
C17_FeatureCells ==
    IsSome(language) =>
        LET dim == Cardinality(Frequent) IN
        /\ Len(res) = Len(graphs)
        /\ \A k \in DOMAIN res :
              /\ Len(res[k]) = (dim * (dim + 1)) \div 2
              /\ \A u, v \in Frequent :
                    LET cell == res[k][ColumnOf(u, v) + 1] IN
                    /\ cell \in {0, EdgeValueOr0(k, u, v)}
                    /\ tasks[k].done => cell = EdgeValueOr0(k, u, v)

C17_Witness ==
    /\ IsSome(language)
    /\ \A k \in DOMAIN tasks : tasks[k].done
    /\ Frequent = {<<97>>, <<98>>}
    /\ \E k \in DOMAIN graphs :
          /\ AMGraphGet(graphs[k], <<97>>, <<97, 98>>) = Ok(Some(1))
          /\ GetByStr(graphs[k].map, <<98>>) = Some(2)
          /\ res[k] = <<0, 2, 0>>
    /\ \E k \in DOMAIN graphs : res[k] = <<0, 1, 2>>
    /\ \E k \in DOMAIN graphs : res[k] = <<0, 0, 0>>

\* The matrix vectorize returns when the rows are filled one after the
\* other, each by its own graph.
SequentialFill ==
    LET lang == Unwrap(language)
        dim == lang.len
        zeros == Zeros(Len(graphs), (dim * (dim + 1)) \div 2)
    IN  [k \in DOMAIN graphs |->
            FillRow(zeros[k], graphs[k], AMGraphEdges(graphs[k]), lang)]

\* C18. Row independence under parallelism: under every interleaving of the
\* per-row tasks, the task of graph k writes only cells of row k, no two
\* tasks write the same cell, every row is at each moment what its own task
\* alone has made of it (finishing it gives the row of the sequential fill),
\* and once all tasks have ended the matrix equals the one of the sequential
\* fill.
C18_RowIndependence ==
    IsSome(language) =>
        /\ \A x \in wrote : x[2] = x[1]
        /\ \A x, y \in wrote : (x[2] = y[2] /\ x[3] = y[3]) => x[1] = y[1]
        /\ \A k \in DOMAIN graphs :
              FillRow(res[k], graphs[k], tasks[k].it, Unwrap(language))
                = SequentialFill[k]
        /\ (\A k \in DOMAIN tasks : tasks[k].done) => res = SequentialFill

C18_Witness ==
    /\ IsSome(language)
    /\ \E j, k \in DOMAIN tasks :
          /\ j < k
          /\ ~tasks[j].done /\ ~tasks[k].done
          /\ tasks[j].it # AMGraphEdges(graphs[j])
          /\ \E x, y \in wrote : x[1] = j /\ y[1] = k /\ x[3] = y[3]
          /\ res[j] # SequentialFill[j]
          /\ res[k] = SequentialFill[k]

\* The number of leaves of a node list.
RECURSIVE LeafCount(_)
LeafCount(nodes) ==
    IF nodes = <<>> THEN 0
    ELSE (IF nodes[1].kind = "NonLeaf" THEN LeafCount(nodes[1].children)
          ELSE 1)
         + LeafCount(Drop(nodes, 1))

\* Every branch size is the number of leaves below the branch.
RECURSIVE SizesConsistent(_)
SizesConsistent(nodes) ==
    \A j \in DOMAIN nodes :
        nodes[j].kind = "NonLeaf" =>
            /\ nodes[j].len = LeafCount(nodes[j].children)
            /\ SizesConsistent(nodes[j].children)

\* What a node has for its siblings to be ordered by: its suffix or prefix.
NodeKey(n) == IF n.kind = "Leaf" THEN n.rest ELSE n.prefix

\* The nodes of every sibling list are in strictly ascending order.
RECURSIVE SiblingsOrdered(_)
SiblingsOrdered(nodes) ==
    /\ \A j \in 1..(Len(nodes) - 1) :
          Lt(NodeKey(nodes[j]), NodeKey(nodes[j + 1]))
    /\ \A j \in DOMAIN nodes :
          nodes[j].kind = "NonLeaf" => SiblingsOrdered(nodes[j].children)

\* A graph whose trie and matrix are structurally consistent.
Consistent(g) ==
    /\ g.map.len = LeafCount(g.map.roots)
    /\ SizesConsistent(g.map.roots)
    /\ SiblingsOrdered(g.map.roots)
    /\ Len(g.edges) = (g.map.len * (g.map.len + 1)) \div 2

\* C19. Malformed persisted state is rejected at load time: reading a file
\* whose trie or matrix data is structurally inconsistent (a branch size or
\* top-level count that differs from the number of leaves, unordered
\* siblings, a slot vector whose length is not N(N+1)/2) gives a load
\* failure, never a graph.
C19_MalformedRejected ==
    IsSome(loaded) =>
        (Unwrap(loaded).tag = "Ok" => Consistent(Unwrap(loaded).val))

\* The set of terms that occur in the document.
TermsOf(doc) == {ParagraphsTerms(doc)[i] : i \in DOMAIN ParagraphsTerms(doc)}

\* C20. construct_hierarchial_weighed returns a fully connected graph: for
\* every document and every weights array, the all-zero one included, it
\* returns a graph in which every unordered pair of distinct terms of the
\* document has a present edge.
C20_FullyConnected ==
    IsSome(built) =>
        /\ Unwrap(built).tag = "Ok"
        /\ \A t1, t2 \in TermsOf(document) :
              t1 # t2 =>
                LET r == AMGraphGet(Unwrap(built).val, t1, t2) IN
                r.tag = "Ok" /\ IsSome(r.val)

C20_Witness ==
    /\ IsSome(built)
    /\ Unwrap(built).tag = "Ok"
    /\ weights = <<0, 0, 0, 0>>
    /\ document = << << << <<97>>, <<97, 98>> >> >>, << << <<98>> >> >> >>
    /\ AMGraphGet(Unwrap(built).val, <<98>>, <<97>>) = Ok(Some(0))
    /\ AMGraphGet(Unwrap(built).val, <<97, 98>>, <<97>>) = Ok(Some(0))

\* The number of occurrences of term t in sentence s.
Occ(t, s) == Cardinality({i \in DOMAIN s : s[i] = t})

\* The sum, over the sentences of a list, of the pairings of a with b.
RECURSIVE Pairings(_, _, _)
Pairings(sents, a, b) ==
    IF sents = <<>> THEN 0
    ELSE Occ(a, sents[1]) * Occ(b, sents[1]) + Pairings(Drop(sents, 1), a, b)

\* C21. construct_sentence_count: for every document and every two distinct
\* terms a and b of it, the edge (a, b) carries the sum over all sentences of
\* (occurrences of a) * (occurrences of b), and is absent when the two terms
\* never occur in the same sentence.
C21_SentenceCount ==
    IsSome(counted) =>
        /\ Unwrap(counted).tag = "Ok"
        /\ \A a, b \in TermsOf(document) :
              a # b =>
                LET n == Pairings(Concat(document), a, b) IN
                AMGraphGet(Unwrap(counted).val, a, b) =
                    Ok(IF n = 0 THEN None ELSE Some(n))

\* "a b b" adds 2 to the a-b edge.
C21_Witness ==
    /\ IsSome(counted)
    /\ document = << << << <<97>>, <<98>>, <<98>> >> >> >>
    /\ AMGraphGet(Unwrap(counted).val, <<97>>, <<98>>) = Ok(Some(2))

\* The occurrences of term t in the document: <<paragraph, sentence,
\* position>> triples.
Occurrences(doc, t) ==
    UNION {UNION {{<<p, s, i>> : i \in {j \in DOMAIN doc[p][s] :
                                          doc[p][s][j] = t}} :
                  s \in DOMAIN doc[p]} :
           p \in DOMAIN doc}

\* The weight of the tightest tier two occurrences share.
TierWeight(x, y, w) ==
    IF x[1] # y[1] THEN w[4]
    ELSE IF x[2] # y[2] THEN w[3]
    ELSE w[2]

\* The sum of the tier weights of a set of occurrence pairs.
RECURSIVE SumTiers(_, _)
SumTiers(pairs, w) ==
    IF pairs = {} THEN 0
    ELSE LET pr == CHOOSE x \in pairs : TRUE IN
         TierWeight(pr[1], pr[2], w) + SumTiers(pairs \ {pr}, w)

RECURSIVE FirstBytesAscending(_)
FirstBytesAscending(nodes) ==
    /\ \A j \in 2..Len(nodes) :
          /\ NodeKey(nodes[j]) # <<>>
          /\ NodeKey(nodes[j - 1]) # <<>> =>
                NodeKey(nodes[j - 1])[1] < NodeKey(nodes[j])[1]
    /\ \A j \in DOMAIN nodes :
          nodes[j].kind = "NonLeaf" => FirstBytesAscending(nodes[j].children)

\* C23. Sibling order invariant: after any sequence of insertions, in every
\* sibling list of the trie no two nodes share a first byte, nodes are in
\* strictly ascending order of first byte, and an empty-suffix leaf occurs
\* at most once and only at position 0.
C23_SiblingOrder == FirstBytesAscending(trie.roots)

\* The empty string inserted in front of a root branch whose own first
\* child is an empty-suffix leaf.
C23_Witness ==
    /\ last.op = "insert" /\ last.ret
    /\ Len(trie.roots) = 2
    /\ trie.roots[1] = Leaf(<<>>)
    /\ trie.roots[2].kind = "NonLeaf"
    /\ trie.roots[2].children[1] = Leaf(<<>>)
    /\ last.key = <<>>

\* C24. Size invariant: after any sequence of insertions, those that split a
\* leaf or a branch included, every branch node's stored len is the number
\* of leaves in its subtree, and the trie's top-level len is the total
\* number of leaves.
C24_Sizes ==
    /\ SizesConsistent(trie.roots)
    /\ trie.len = LeafCount(trie.roots)

\* An insert that split a branch of two leaves: the new branch has three
\* leaves below it, two of them under the demoted branch.
C24_Witness ==
    /\ last.op = "insert" /\ last.ret
    /\ Len(last.before.roots) = 1
    /\ last.before.roots[1].kind = "NonLeaf"
    /\ last.before.roots[1].len = 2
    /\ Len(trie.roots) = 1
    /\ trie.roots[1].len = 3
    /\ Len(trie.roots[1].prefix) < Len(last.before.roots[1].prefix)
    /\ \E c \in DOMAIN trie.roots[1].children :
          /\ trie.roots[1].children[c].kind = "NonLeaf"
          /\ trie.roots[1].children[c].len = 2

\* The longest common prefix of a non-empty set of strings.
LongestCommonPrefix(S) ==
    LET s == CHOOSE x \in S : TRUE
        ns == {n \in 0..Len(s) :
                 \A t \in S : Len(t) >= n /\ Take(t, n) = Take(s, n)}
    IN  Take(s, CHOOSE n \in ns : \A m \in ns : m <= n)

\* Every branch of the node list, at any depth, has a non-empty prefix and
\* at least two children, and its prefix is the longest common prefix of
\* what its subtree's strings have left after its ancestors' prefixes.
RECURSIVE PathCompressed(_)
PathCompressed(nodes) ==
    \A j \in DOMAIN nodes :
        nodes[j].kind = "NonLeaf" =>
            /\ nodes[j].prefix # <<>>
            /\ Len(nodes[j].children) >= 2
            /\ nodes[j].prefix =
                  LongestCommonPrefix({l.str : l \in Leaves(<<nodes[j]>>, <<>>)})
            /\ PathCompressed(nodes[j].children)

\* C25. Path-compression invariant: after any sequence of insertions, every
\* branch node has a non-empty prefix and at least two children, and its
\* prefix is the maximal common prefix of the strings of its subtree beyond
\* what its ancestors already consumed.
C25_PathCompression == PathCompressed(trie.roots)

\* An insert that split a branch of prefix length 2: the new branch keeps
\* the first byte, the demoted branch below it the second.
C25_Witness ==
    /\ last.op = "insert" /\ last.ret
    /\ Len(last.before.roots) = 1
    /\ last.before.roots[1].kind = "NonLeaf"
    /\ Len(last.before.roots[1].prefix) = 2
    /\ Len(trie.roots) = 1
    /\ trie.roots[1].kind = "NonLeaf"
    /\ Len(trie.roots[1].prefix) = 1
    /\ HasNestedBranch(trie.roots)
    /\ \E c \in DOMAIN trie.roots[1].children :
          /\ trie.roots[1].children[c].kind = "NonLeaf"
          /\ Len(trie.roots[1].children[c].prefix) = 1

\* The unordered pairs of indices below n, each as a set of one or two.
UnorderedPairs(n) == {{i, j} : i, j \in 0..(n - 1)}

\* C26. Slot addressing is a bijection on unordered pairs: for a matrix over
\* N elements, slot(i, j) = max(i,j)*(max(i,j)+1)/2 + min(i,j) maps the
\* N(N+1)/2 unordered pairs with i, j < N one-to-one onto the slots
\* 0..N(N+1)/2 - 1 (term_indices_to_edge_index computes the same slots), so
\* a write at one unordered pair leaves the value of every other unordered
\* pair unchanged.
C26_SlotBijection ==
    LET n == MatDim(mat)
        idx == 0..(n - 1)
    IN
    /\ Cardinality(UnorderedPairs(n)) = Len(mat)
    /\ {Slot(i, j) : i, j \in idx} = 0..(Len(mat) - 1)
    /\ \A i, j, k, l \in idx :
          /\ Slot(i, j) = Slot(k, l) => {i, j} = {k, l}
          /\ TermIndicesToEdgeIndex(i, j) = Slot(i, j)
    /\ (last.op = "index_mut" /\ matArgs.i \in idx /\ matArgs.j \in idx) =>
          /\ last.ret.tag = "Ok"
          /\ \A k, l \in idx :
                LTIndex(mat, k, l) =
                    IF {k, l} = {matArgs.i, matArgs.j} THEN Ok(matArgs.v)
                    ELSE LTIndex(last.before, k, l)

\* A weight written at (1, 2) of a matrix over three elements: slot 4 of 6.
C26_Witness ==
    /\ last.op = "index_mut"
    /\ matArgs = [i |-> 1, j |-> 2, v |-> Some(2)]
    /\ last.before = <<None, None, None, None, None, None>>
    /\ mat = <<None, None, None, None, Some(2), None>>
    /\ LTIndex(mat, 2, 1) = Ok(Some(2))
    /\ LTIndex(mat, 2, 2) = Ok(None)

\* C27. Insertion-order independence: the trie built by inserting a set of
\* strings in any order, with any duplicates, is structurally equal (same
\* nodes, prefixes, sizes and len) to the trie built from the same set in
\* any other order, so ranks are the same; the vocabulary vectorize collects
\* from its hash map is the same trie whatever order the map yields.  Every
\* order of insertion, with duplicates, leads to a state of the run, and in
\* each the trie is the one from_iter builds from the strings in ascending
\* order, and the one it builds from them in descending order.
C27_OrderIndependence ==
    LET asc == SortedSeq(inserted)
        desc == Reversed(asc)
    IN  /\ trie = FromIter(asc)
        /\ trie = FromIter(desc)

\* Three strings, the least of them inserted last into a trie that already
\* had a branch: the trie is the one the sorted order builds.
C27_Witness ==
    /\ last.op = "insert" /\ last.ret
    /\ Cardinality(inserted) = 3
    /\ \A t \in inserted \ {last.key} : Lt(last.key, t)
    /\ \E j \in DOMAIN last.before.roots :
          last.before.roots[j].kind = "NonLeaf"
    /\ SortedSeq(inserted)[1] = last.key
    /\ trie = FromIter(SortedSeq(inserted))
    /\ trie # last.before

\* A construction that, once made, returned a graph over the vocabulary of
\* the document and did not panic.
Completed(r) ==
    IsSome(r) =>
        /\ Unwrap(r).tag = "Ok"
        /\ Unwrap(r).val.map = BuildLanguageOf(document)

\* C28. Graph construction never hits an unknown vertex: for every document
\* (empty documents, empty paragraphs and empty sentences included),
\* construct_hierarchial_weighed, construct_sentence_count and
\* construct_sentence_link return a graph, the unwrap on get_mut never
\* failing, and the vocabulary build_language collects has every term of the
\* document as a vertex.
C28_NoUnknownVertex ==
    /\ \A t \in TermsOf(document) :
          AMGraphContainsVertex(AMGraphNew(BuildLanguageOf(document)), t)
    /\ Completed(built)
    /\ Completed(counted)
    /\ Completed(linked)

\* The three constructions done on a document of an empty paragraph, an
\* empty sentence and a sentence of two terms.
C28_Witness ==
    /\ document = << <<>>, << <<>>, << <<97>>, <<98>> >> >> >>
    /\ IsSome(built) /\ IsSome(counted) /\ IsSome(linked)
    /\ AMGraphGet(Unwrap(linked).val, <<97>>, <<98>>) = Ok(Some(Unit))
    /\ AMGraphGet(Unwrap(counted).val, <<98>>, <<98>>) = Ok(Some(1))
    /\ Unwrap(built).tag = "Ok"

====
